---- MODULE Spec2Model ----
(***************************************************************************)
(* A model of pycard/card.py: the Card and ExpDate value types.            *)
(*                                                                         *)
(* Strings are sequences of one-character strings, so that stripping,      *)
(* slicing, regexp matching and int()/str() conversions are computed on    *)
(* characters, as the Python code computes them.  A datetime is a record   *)
(* of its seven fields and is compared field by field.  The code targets   *)
(* Python 2 (dict.iteritems, u'' literals); the model follows Python 2.    *)
(***************************************************************************)
EXTENDS Integers, Sequences, FiniteSets, TLC

VARIABLES arg_number, arg_month, arg_year, arg_cvv2,
          status, number, expired_after, cvv2,
          utcnow, op, ret

vars == <<arg_number, arg_month, arg_year, arg_cvv2,
          status, number, expired_after, cvv2, utcnow, op, ret>>

(***************************************************************************)
(* Bounds of the checked input space.                                      *)
(***************************************************************************)
MaxShort == 2
MaxLen == 17
MaxMonth == 13

(***************************************************************************)
(* Characters, int() and str().                                            *)
(***************************************************************************)
Digits == <<"0", "1", "2", "3", "4", "5", "6", "7", "8", "9">>

DigitSet == {Digits[i] : i \in 1..10}

IsDigit(c) == c \in DigitSet

int(c) == (CHOOSE i \in 1..10 : Digits[i] = c) - 1

RECURSIVE str(_)
str(n) == IF n < 10 THEN <<Digits[n + 1]>>
          ELSE str(n \div 10) \o <<Digits[(n % 10) + 1]>>

Min(a, b) == IF a < b THEN a ELSE b

\* Python slice s[a:b] of a sequence (0-indexed, end exclusive, clamped).
Slice(s, a, b) ==
    LET hi == Min(b, Len(s))
    IN  IF a >= hi THEN <<>> ELSE SubSeq(s, a + 1, hi)

(***************************************************************************)
(* Return values: every accessor either returns a value or raises.         *)
(***************************************************************************)
NoRet == [err |-> "none", kind |-> "none", bool |-> FALSE, chars |-> <<>>, name |-> ""]

RetBool(b) == [NoRet EXCEPT !.kind = "bool", !.bool = b]

RetChars(s) == [NoRet EXCEPT !.kind = "chars", !.chars = s]

RetName(n) == [NoRet EXCEPT !.kind = "name", !.name = n]

Raise(e) == [NoRet EXCEPT !.err = e]

(***************************************************************************)
(* Card class attributes.                                                  *)
(***************************************************************************)
non_digit_regexp_sub_first(s) ==
    IF \E i \in 1..Len(s) : ~IsDigit(s[i])
    THEN LET k == CHOOSE i \in 1..Len(s) :
                     ~IsDigit(s[i]) /\ \A j \in 1..(i - 1) : IsDigit(s[j])
         IN  SubSeq(s, 1, k - 1) \o SubSeq(s, k + 1, Len(s))
    ELSE s

\* non_digit_regexp.sub('', s): every character matching \D is removed.
non_digit_regexp_sub(s) == SelectSeq(s, IsDigit)

BRAND_VISA == "visa"
BRAND_MASTERCARD == "mastercard"
BRAND_AMEX == "amex"
BRAND_DISCOVER == "discover"
BRAND_UNKNOWN == "unknown"

BrandNames == {BRAND_VISA, BRAND_MASTERCARD, BRAND_AMEX, BRAND_DISCOVER}

\* \d{n} over the 1-indexed positions from..to
AllDigits(s, from, to) == \A i \in from..to : IsDigit(s[i])

\* ^4\d{12}(\d{3})?$
MatchVisa(s) ==
    /\ Len(s) \in {13, 16}
    /\ s[1] = "4"
    /\ AllDigits(s, 2, Len(s))

MatchMastercardLoose(s) ==
    /\ Len(s) = 16
    /\ \/ s[1] = "5" /\ s[2] \in {"1", "2", "3", "4", "5"} /\ AllDigits(s, 3, 6)
       \/ s[1] = "6" /\ AllDigits(s, 2, 6)
    /\ AllDigits(s, 7, 16)

\* ^(5[1-5]\d{4}|677189)\d{10}$
MatchMastercard(s) ==
    /\ Len(s) = 16
    /\ \/ s[1] = "5" /\ s[2] \in {"1", "2", "3", "4", "5"} /\ AllDigits(s, 3, 6)
       \/ SubSeq(s, 1, 6) = <<"6", "7", "7", "1", "8", "9">>
    /\ AllDigits(s, 7, 16)

\* ^3[47]\d{13}$
MatchAmex(s) ==
    /\ Len(s) = 15
    /\ s[1] = "3"
    /\ s[2] \in {"4", "7"}
    /\ AllDigits(s, 3, 15)

\* ^(6011|65\d{2})\d{12}$
MatchDiscover(s) ==
    /\ Len(s) = 16
    /\ \/ SubSeq(s, 1, 4) = <<"6", "0", "1", "1">>
       \/ s[1] = "6" /\ s[2] = "5" /\ AllDigits(s, 3, 4)
    /\ AllDigits(s, 5, 16)

\* BRANDS[b].match(s)
BRANDS(b, s) ==
    CASE b = BRAND_VISA -> MatchVisa(s)
      [] b = BRAND_MASTERCARD -> MatchMastercard(s)
      [] b = BRAND_AMEX -> MatchAmex(s)
      [] b = BRAND_DISCOVER -> MatchDiscover(s)

\* The orders in which a dict of the four brands can be iterated.
IterOrders ==
    {o \in [1..4 -> BrandNames] : \A b \in BrandNames : \E i \in 1..4 : o[i] = b}

TESTS ==
    { <<"4","4","4","4","3","3","3","3","2","2","2","2","1","1","1","1">>,
      <<"3","7","8","2","8","2","2","4","6","3","1","0","0","0","5">>,
      <<"3","7","1","4","4","9","6","3","5","3","9","8","4","3","1">>,
      <<"3","7","8","7","3","4","4","9","3","6","7","1","0","0","0">>,
      <<"3","0","5","6","9","3","0","9","0","2","5","9","0","4">>,
      <<"3","8","5","2","0","0","0","0","0","2","3","2","3","7">>,
      <<"6","0","1","1","1","1","1","1","1","1","1","1","1","1","1","7">>,
      <<"6","0","1","1","0","0","0","9","9","0","1","3","9","4","2","4">>,
      <<"5","5","5","5","5","5","5","5","5","5","5","4","4","4","4">>,
      <<"5","1","0","5","1","0","5","1","0","5","1","0","5","1","0","0">>,
      <<"4","1","1","1","1","1","1","1","1","1","1","1","1","1","1","1">>,
      <<"4","0","1","2","8","8","8","8","8","8","8","8","1","8","8","1">> ,
      <<"4","2","2","2","2","2","2","2","2","2","2","2","2">> }

\* The names an instance of Card resolves (class attributes, instance
\* attributes set by __init__, properties).
CardAttrs ==
    {"non_digit_regexp", "BRAND_VISA", "BRAND_MASTERCARD", "BRAND_AMEX",
     "BRAND_DISCOVER", "BRAND_UNKNOWN", "BRANDS", "TESTS",
     "number", "exp_date", "cvv2",
     "mask", "brand", "is_test", "is_expired", "is_valid", "is_mod10_valid"}

\* The names an instance of ExpDate resolves.
ExpDateAttrs == {"expired_after", "is_expired", "mmyyyy", "mm", "yyyy"}

(***************************************************************************)
(* Calendar and datetime (the parts of calendar/datetime the code uses).   *)
(***************************************************************************)
MINYEAR == 1
MAXYEAR == 9999
February == 2

mdays == [m \in 0..12 |->
            IF m = 0 THEN 0
            ELSE <<31, 28, 31, 30, 31, 30, 31, 31, 30, 31, 30, 31>>[m]]

isleap_every4(year) == year % 4 = 0

isleap(year) == year % 4 = 0 /\ (year % 100 # 0 \/ year % 400 = 0)

\* second component of calendar.monthrange(year, month)
day_count(year, month) ==
    mdays[month] + (IF month = February /\ isleap(year) THEN 1 ELSE 0)

NoDate == [year |-> 0, month |-> 0, day |-> 0, hour |-> 0,
           minute |-> 0, second |-> 0, microsecond |-> 0]

datetime(y, m, d, h, mi, s, us) ==
    [year |-> y, month |-> m, day |-> d, hour |-> h,
     minute |-> mi, second |-> s, microsecond |-> us]

DtFields == <<"year", "month", "day", "hour", "minute", "second", "microsecond">>

DtGreaterOrEqual(a, b) ==
    \/ a = b
    \/ \E i \in 1..7 :
          /\ a[DtFields[i]] > b[DtFields[i]]
          /\ \A j \in 1..(i - 1) : a[DtFields[j]] = b[DtFields[j]]

\* datetime.__gt__: a > b, field by field from the year down
DtGreater(a, b) ==
    \E i \in 1..7 :
       /\ a[DtFields[i]] > b[DtFields[i]]
       /\ \A j \in 1..(i - 1) : a[DtFields[j]] = b[DtFields[j]]

\* the calendar day before the day of dt, same time of day
PrevDay(dt) ==
    IF dt.day > 1 THEN [dt EXCEPT !.day = @ - 1]
    ELSE IF dt.month > 1
         THEN [dt EXCEPT !.month = @ - 1, !.day = day_count(dt.year, dt.month - 1)]
         ELSE [dt EXCEPT !.year = @ - 1, !.month = 12, !.day = 31]

\* dt - datetime.timedelta(hours=h), 0 <= h <= 24
MinusHours(dt, h) ==
    IF dt.hour >= h THEN [dt EXCEPT !.hour = @ - h]
    ELSE [PrevDay(dt) EXCEPT !.hour = dt.hour + 24 - h]

SamoaOffsetHours == 11

(***************************************************************************)
(* ExpDate                                                                 *)
(***************************************************************************)
IllegalMonthNoDecember(month) == ~(1 <= month /\ month < 12)

\* calendar.monthrange: if not 1 <= month <= 12: raise IllegalMonthError
IllegalMonth(month) == ~(1 <= month /\ month <= 12)

\* ExpDate.__init__: the error raised, or the expired_after it attaches
ExpDate_init(month, year) ==
    IF IllegalMonth(month)
    THEN [err |-> "IllegalMonthError", expired_after |-> NoDate]
    ELSE IF ~(MINYEAR <= year /\ year <= MAXYEAR)
    THEN [err |-> "ValueError", expired_after |-> NoDate]
    ELSE [err |-> "none",
          expired_after |->
              datetime(year, month, day_count(year, month), 23, 59, 59, 999999)]

\* ExpDate.is_expired
ExpDate_is_expired(self, now) ==
    LET samoa_now == MinusHours(now, SamoaOffsetHours)
    IN  RetBool(DtGreater(samoa_now, self.expired_after))

\* str.zfill for the digits of n
RECURSIVE ZeroPad(_, _)
ZeroPad(s, w) == IF Len(s) >= w THEN s ELSE ZeroPad(<<"0">> \o s, w)

\* datetime.strftime for the three formats the code uses
strftime(dt, fmt) ==
    IF dt.year < 1900 THEN Raise("ValueError")
    ELSE CASE fmt = "%m" -> RetChars(ZeroPad(str(dt.month), 2))
           [] fmt = "%Y" -> RetChars(str(dt.year))
           [] fmt = "%m/%Y" ->
                RetChars(ZeroPad(str(dt.month), 2) \o <<"/">> \o str(dt.year))

\* attribute lookup on an ExpDate instance, for the names its methods read
ExpDate_getattr(self, name) ==
    IF name \notin ExpDateAttrs THEN Raise("AttributeError")
    ELSE [NoRet EXCEPT !.kind = "datetime"]

\* ExpDate.mmyyyy / mm / yyyy: self.exp_date.strftime(fmt)
ExpDate_format(self, fmt) ==
    LET exp_date == ExpDate_getattr(self, "exp_date")
    IN  IF exp_date.err # "none" THEN exp_date
        ELSE strftime(self.expired_after, fmt)

(***************************************************************************)
(* Card                                                                    *)
(***************************************************************************)
\* Card.brand, with the dict iterated in the order `order`
RECURSIVE FirstMatch(_, _, _)
FirstMatch(order, i, s) ==
    IF i > Len(order) THEN BRAND_UNKNOWN
    ELSE IF BRANDS(order[i], s) THEN order[i]
    ELSE FirstMatch(order, i + 1, s)

brand(self, order) == RetName(FirstMatch(order, 1, self.number))

\* Card.is_test
is_test(self) == RetBool(self.number \in TESTS)

\* Card.is_expired
is_expired(self, now) == ExpDate_is_expired(self.exp_date, now)

\* the digits of str((dub + 1) * int(c)) added up
RECURSIVE SumDigits(_)
SumDigits(cs) == IF cs = <<>> THEN 0 ELSE int(Head(cs)) + SumDigits(Tail(cs))

\* the loop of Card.is_mod10_valid from index i (1-indexed) down to 1
RECURSIVE Mod10Loop(_, _, _, _)
Mod10Loop(s, i, dub, tot) ==
    IF i < 1 THEN tot
    ELSE Mod10Loop(s, i - 1, (dub + 1) % 2,
                   tot + SumDigits(str((dub + 1) * int(s[i]))))

RECURSIVE Mod10LoopRaw(_, _, _, _)
Mod10LoopRaw(s, i, dub, tot) ==
    IF i < 1 THEN tot
    ELSE Mod10LoopRaw(s, i - 1, (dub + 1) % 2, tot + (dub + 1) * int(s[i]))

is_mod10_valid_raw(self) ==
    IF \E i \in 1..Len(self.number) : ~IsDigit(self.number[i])
    THEN Raise("ValueError")
    ELSE RetBool(Mod10LoopRaw(self.number, Len(self.number), 0, 0) % 10 = 0)

\* Card.is_mod10_valid; int() of a character that is no digit raises
is_mod10_valid(self) ==
    IF \E i \in 1..Len(self.number) : ~IsDigit(self.number[i])
    THEN Raise("ValueError")
    ELSE RetBool(Mod10Loop(self.number, Len(self.number), 0, 0) % 10 = 0)

\* attribute lookup on a Card instance, for the names its methods read
Card_getattr(self, now, name) ==
    IF name \notin CardAttrs THEN Raise("AttributeError")
    ELSE CASE name = "is_test" -> is_test(self)
           [] name = "is_expired" -> is_expired(self, now)
           [] name = "is_mod10_valid" -> is_mod10_valid(self)
           [] name = "number" -> RetChars(self.number)
           [] OTHER -> [NoRet EXCEPT !.kind = "object"]

MaskAmexPrefix == <<"X","X","X","X","-","X","X","X","X","X","X","-","X">>

MaskOtherPrefix == <<"X","X","X","X","-","X","X","X","X","-","X","X","X","X","-">>

\* Card.mask
mask(self, now) ==
    LET card_type == Card_getattr(self, now, "card_type")
    IN  IF card_type.err # "none" THEN card_type
        ELSE IF card_type.name = BRAND_AMEX
        THEN RetChars(MaskAmexPrefix \o Slice(self.number, 11, 15))
        ELSE RetChars(MaskOtherPrefix \o Slice(self.number, 12, 16))

\* Card.is_valid: not self.is_expired and self.is_mod10
is_valid(self, now) ==
    LET e == is_expired(self, now)
    IN  IF e.bool THEN RetBool(FALSE)
        ELSE LET m == Card_getattr(self, now, "is_mod10")
             IN  IF m.err # "none" THEN m ELSE RetBool(m.bool)

\* Card.__init__: the error raised, or the fields of the instance
Card_init(n, month, year, cvv) ==
    LET digits == non_digit_regexp_sub(n)
        e == ExpDate_init(month, year)
    IN  [err |-> e.err,
         number |-> IF e.err = "none" THEN digits ELSE <<>>,
         expired_after |-> e.expired_after,
         cvv2 |-> IF e.err = "none" THEN cvv ELSE ""]

(***************************************************************************)
(* State machine                                                           *)
(***************************************************************************)
Self == [number |-> number,
         exp_date |-> [expired_after |-> expired_after],
         cvv2 |-> cvv2]

\* Card(arg_number, arg_month, arg_year, arg_cvv2)
Construct ==
    /\ status = "new"
    /\ LET c == Card_init(arg_number, arg_month, arg_year, arg_cvv2)
       IN  /\ status' = IF c.err = "none" THEN "constructed" ELSE "failed"
           /\ number' = c.number
           /\ expired_after' = c.expired_after
           /\ cvv2' = c.cvv2
           /\ op' = "init"
           /\ ret' = Raise(c.err)
    /\ UNCHANGED <<arg_number, arg_month, arg_year, arg_cvv2, utcnow>>

Returns(name, value) ==
    /\ status = "constructed"
    /\ op' = name
    /\ ret' = value
    /\ UNCHANGED <<arg_number, arg_month, arg_year, arg_cvv2,
                   status, number, expired_after, cvv2, utcnow>>

GetBrand == \E order \in IterOrders : Returns("brand", brand(Self, order))

GetMask == Returns("mask", mask(Self, utcnow))

GetIsTest == Returns("is_test", is_test(Self))

GetIsExpired == Returns("is_expired", is_expired(Self, utcnow))

GetIsValid == Returns("is_valid", is_valid(Self, utcnow))

GetIsMod10Valid == Returns("is_mod10_valid", is_mod10_valid(Self))

GetMmyyyy == Returns("mmyyyy", ExpDate_format(Self.exp_date, "%m/%Y"))

GetMm == Returns("mm", ExpDate_format(Self.exp_date, "%m"))

GetYyyy == Returns("yyyy", ExpDate_format(Self.exp_date, "%Y"))

(***************************************************************************)
(* The clock.  datetime.utcnow() reads it; it never runs backwards.        *)
(***************************************************************************)
ClockYears == {2024, 2100}

ClockMonths == {1, 3}

Instants ==
    UNION { { datetime(y, m, 1, 10, 59, 59, 999999),
              datetime(y, m, 1, 11, 0, 0, 0),
              datetime(y, m, day_count(y, m), 23, 59, 59, 999999) } :
            <<y, m>> \in ClockYears \X ClockMonths }

LastInstants ==
    {t \in Instants : Cardinality({u \in Instants : DtGreater(u, t)}) <= 1}

Tick ==
    /\ \E t \in Instants :
          /\ DtGreater(t, utcnow)
          /\ utcnow' = t
    /\ op' = "tick"
    /\ ret' = NoRet
    /\ UNCHANGED <<arg_number, arg_month, arg_year, arg_cvv2,
                   status, number, expired_after, cvv2>>

(***************************************************************************)
(* Constructor arguments.                                                  *)
(***************************************************************************)
\* every digit string of length 0..MaxShort
ShortNumbers == UNION {[1..n -> DigitSet] : n \in 0..MaxShort}

Prefixes ==
    { <<>>, <<"4">>, <<"5","0">>, <<"5","1">>, <<"5","5">>, <<"5","6">>,
      <<"6","7","7","1","8","9">>, <<"6","7","7","1","8","8">>,
      <<"6","0","1","1">>, <<"6","0","1","2">>, <<"6","5">>, <<"6","4">>,
      <<"3","4">>, <<"3","7">>, <<"3","5">> }

FillDigits == {"0", "7"}

\* prefix p followed by the digit f up to length n
Build(p, f, n) == [i \in 1..n |-> IF i <= Len(p) THEN p[i] ELSE f]

GenNumbers ==
    {Build(p, f, n) : <<p, f, n>> \in Prefixes \X FillDigits \X (12..MaxLen)}

Examples ==
    { <<"4","1","1","1","1","1","1","1","1","1","1","1","1","1","1","2">>,
      <<"0","0","0","0","0","0","0","0","0","0","0","0","0","0","0","0">>,
      <<"7","9","9","2","7","3","9","8","7","1","3">> }

\* s with the character c put in after every fourth character
RECURSIVE Grouped(_, _)
Grouped(s, c) ==
    IF Len(s) <= 4 THEN s
    ELSE SubSeq(s, 1, 4) \o <<c>> \o Grouped(SubSeq(s, 5, Len(s)), c)

Decorated ==
    UNION { { Grouped(s, "-"), Grouped(s, " "),
              <<" ", "a">> \o s \o <<"-">>,
              <<Head(s), "/", "-">> \o Tail(s) } : s \in TESTS \cup Examples }

NoDigits == { <<"-">>, <<" ", "a">>, <<"X", "-", "/">> }

NumberInputs ==
    ShortNumbers \cup GenNumbers \cup TESTS \cup Examples \cup Decorated \cup NoDigits

DateNumbers ==
    { <<>>,
      <<"4","1","1","1","1","1","1","1","1","1","1","1","1","1","1","1">>,
      <<"4","1","1","1","-","1","1","1","1","-","1","1","1","1","-","1","1","1","2">> }

DateYears == {0, 1900, 2000, 2023, 2024, 2100, 9999, 10000}

InitWith(numbers, months, years, cvvs, clocks) ==
    /\ arg_number \in numbers
    /\ arg_month \in months
    /\ arg_year \in years
    /\ arg_cvv2 \in cvvs
    /\ utcnow \in clocks
    /\ status = "new"
    /\ number = <<>>
    /\ expired_after = NoDate
    /\ cvv2 = ""
    /\ op = "none"
    /\ ret = NoRet

\* few numbers, every month, years around the calendar's edge cases
Init == InitWith(DateNumbers, 0..MaxMonth, DateYears, {"123"}, Instants)

\* many numbers, one date, the last two instants of the clock
InitNumber == InitWith(NumberInputs, {3}, {2100}, {"123"}, LastInstants)

Next ==
    \/ Construct
    \/ Tick
    \/ GetBrand
    \/ GetMask
    \/ GetIsTest
    \/ GetIsExpired
    \/ GetIsValid
    \/ GetIsMod10Valid
    \/ GetMmyyyy
    \/ GetMm
    \/ GetYyyy

Spec == Init /\ [][Next]_vars

SpecNumber == InitNumber /\ [][Next]_vars

TypeOK ==
    /\ status \in {"new", "constructed", "failed"}
    /\ op \in {"none", "init", "tick", "brand", "mask", "is_test", "is_expired",
               "is_valid", "is_mod10_valid", "mmyyyy", "mm", "yyyy"}
    /\ ret.err \in {"none", "AttributeError", "ValueError", "IllegalMonthError"}

AccessorOps ==
    {"brand", "mask", "is_test", "is_expired", "is_valid", "is_mod10_valid",
     "mmyyyy", "mm", "yyyy"}

(***************************************************************************)
(* Reference definitions the properties are stated with.                   *)
(***************************************************************************)
\* the digit characters of s, in order
RECURSIVE OnlyDigits(_)
OnlyDigits(s) ==
    IF s = <<>> THEN <<>>
    ELSE IF Head(s) \in {"0", "1", "2", "3", "4", "5", "6", "7", "8", "9"}
         THEN <<Head(s)>> \o OnlyDigits(Tail(s))
         ELSE OnlyDigits(Tail(s))

\* the value of the digit at offset k from the right of s (k = 0 rightmost)
DigitFromRight(s, k) == int(s[Len(s) - k])

\* the Luhn sum of the digits at offsets k..Len(s)-1 from the right
RECURSIVE LuhnSum(_, _)
LuhnSum(s, k) ==
    IF k >= Len(s) THEN 0
    ELSE LET d == DigitFromRight(s, k)
             v == IF k % 2 = 1 THEN 2 * d ELSE d
         IN  (v \div 10) + (v % 10) + LuhnSum(s, k + 1)

\* Gregorian leap year
RefLeap(y) == (y % 4 = 0 /\ y % 100 # 0) \/ y % 400 = 0

\* the last calendar day of month m of year y
RefLastDay(y, m) ==
    IF m \in {4, 6, 9, 11} THEN 30
    ELSE IF m # 2 THEN 31
    ELSE IF RefLeap(y) THEN 29 ELSE 28

RefCumDays == <<0, 31, 59, 90, 120, 151, 181, 212, 243, 273, 304, 334>>

\* proleptic Gregorian ordinal of the day of dt (0001-01-01 is day 1)
RefOrdinal(dt) ==
    LET p == dt.year - 1
    IN  p * 365 + (p \div 4) - (p \div 100) + (p \div 400)
        + RefCumDays[dt.month]
        + (IF dt.month > 2 /\ RefLeap(dt.year) THEN 1 ELSE 0)
        + dt.day

\* whole hours since the start of 0001-01-01
RefHours(dt) == (RefOrdinal(dt) - 1) * 24 + dt.hour

\* (now - 11 hours) is strictly later than exp
RefPastSamoaCutoff(now, exp) ==
    LET hn == RefHours(now) - 11
        he == RefHours(exp)
        sn == now.minute * 60 + now.second
        se == exp.minute * 60 + exp.second
    IN  \/ hn > he
        \/ hn = he /\ sn > se
        \/ hn = he /\ sn = se /\ now.microsecond > exp.microsecond

\* the mask the brand of n calls for
RefMask(n) ==
    IF MatchAmex(n)
    THEN MaskAmexPrefix \o Slice(n, 11, 15)
    ELSE MaskOtherPrefix \o Slice(n, 12, 16)

InvalidDate == {"IllegalMonthError", "ValueError"}

(***************************************************************************)
(* Properties                                                              *)
(***************************************************************************)
\* C1: on a constructed Card every accessor (brand, mask, is_test,
\* is_expired, is_mod10_valid, is_valid, mm, yyyy, mmyyyy) returns a value
\* and never raises.
C1_AccessorsNeverRaise ==
    (status = "constructed" /\ op \in AccessorOps) =>
        (ret.err = "none" /\ ret.kind \in {"bool", "chars", "name"})

\* C2: is_valid returns exactly (not is_expired) and is_mod10_valid, at every
\* clock value, whatever the brand and whether or not it is a test number.
C2_IsValidIsUnexpiredAndChecksum ==
    (op = "is_valid") =>
        ret = RetBool(~RefPastSamoaCutoff(utcnow, expired_after)
                      /\ LuhnSum(number, 0) % 10 = 0)

\* C3: for a non-empty digit string is_mod10_valid is true iff the Luhn sum
\* (digits at odd offsets from the right doubled, decimal digits of each
\* result added) is divisible by 10.
C3_ChecksumIsLuhn ==
    (op = "is_mod10_valid" /\ number # <<>>) =>
        ret = RetBool(LuhnSum(number, 0) % 10 = 0)

C3_Witness ==
    /\ op = "is_mod10_valid"
    /\ ret = RetBool(TRUE)
    /\ Len(number) >= 2
    /\ \E k \in 0..(Len(number) - 1) : k % 2 = 1 /\ DigitFromRight(number, k) >= 5

\* C4: when the normalized number is empty, is_mod10_valid returns false and
\* does not raise.
C4_EmptyNumberChecksumInvalid ==
    (op = "is_mod10_valid" /\ number = <<>>) => ret = RetBool(FALSE)

\* C5: mask returns 'XXXX-XXXXXX-X' + number[11:15] for Amex and
\* 'XXXX-XXXX-XXXX-' + number[12:16] for every other brand.
C5_MaskFormat ==
    (op = "mask") => ret = RetChars(RefMask(number))

\* C6: at most one of the four brand patterns matches the number, so brand
\* returns the same result for every iteration order: the unique matching
\* brand, or unknown.
C6_BrandPatternsExclusive ==
    (status = "constructed") =>
        LET matching == {b \in BrandNames : BRANDS(b, number)}
            expected == IF matching = {} THEN BRAND_UNKNOWN
                        ELSE CHOOSE b \in matching : TRUE
        IN  /\ Cardinality(matching) <= 1
            /\ \A o \in IterOrders : brand(Self, o) = RetName(expected)
            /\ (op = "brand") => ret = RetName(expected)

C6_Witness ==
    /\ op = "brand"
    /\ ret = RetName(BRAND_MASTERCARD)
    /\ number[1] = "6"

\* C7: is_expired returns true iff (utcnow - 11 hours) is strictly later than
\* expired_after, and as the clock advances an expired date stays expired.
C7_ExpiredIffPastSamoaCutoff ==
    [][ /\ (op' = "is_expired") =>
              ret' = RetBool(RefPastSamoaCutoff(utcnow', expired_after'))
        /\ (status = "constructed" /\ is_expired(Self, utcnow).bool) =>
              is_expired(Self, utcnow').bool ]_vars

C7_Witness ==
    /\ op = "is_expired"
    /\ ret = RetBool(FALSE)
    /\ utcnow.hour = 10
    /\ MinusHours(utcnow, SamoaOffsetHours) = expired_after

\* C8: expired_after is 23:59:59.999999 on the last calendar day of the
\* month and year given (31, 30, 28, or 29 in February of a leap year).
C8_ExpiresAtEndOfMonth ==
    (status = "constructed") =>
        expired_after = datetime(arg_year, arg_month,
                                 RefLastDay(arg_year, arg_month),
                                 23, 59, 59, 999999)

C8_Witness ==
    /\ status = "constructed"
    /\ arg_month = 2
    /\ arg_year = 2100
    /\ expired_after.day = 28

\* C9: construction with a month outside 1..12 fails with the invalid-date
\* error and yields no instance; with a month in 1..12 and a year the
\* calendar accepts it succeeds.
C9_InvalidMonthRejected ==
    (status # "new") =>
        IF arg_month \notin 1..12
        THEN /\ status = "failed"
             /\ number = <<>> /\ expired_after = NoDate
             /\ (op = "init") => ret.err \in InvalidDate
        ELSE (arg_year \in MINYEAR..MAXYEAR) =>
                 /\ status = "constructed"
                 /\ (op = "init") => ret.err = "none"

C9_Witness ==
    /\ status = "failed"
    /\ op = "init"
    /\ arg_month \in {0, 13}
    /\ arg_year \in MINYEAR..MAXYEAR

\* C10: the stored number is the input with every non-digit removed, and a
\* Card built from the digits-only form of the input has the same brand,
\* mask and checksum results.
C10_NumberIsDigitsOfInput ==
    (status = "constructed") =>
        /\ number = OnlyDigits(arg_number)
        /\ \A i \in 1..Len(number) :
              number[i] \in {"0", "1", "2", "3", "4", "5", "6", "7", "8", "9"}
        /\ LET t == Card_init(OnlyDigits(arg_number), arg_month, arg_year, arg_cvv2)
               twin == [number |-> t.number,
                        exp_date |-> [expired_after |-> t.expired_after],
                        cvv2 |-> t.cvv2]
           IN  /\ t.err = "none"
               /\ \A o \in IterOrders : brand(twin, o) = brand(Self, o)
               /\ mask(twin, utcnow) = mask(Self, utcnow)
               /\ is_mod10_valid(twin) = is_mod10_valid(Self)

C10_Witness ==
    /\ op = "brand"
    /\ ret = RetName(BRAND_VISA)
    /\ Len(arg_number) > Len(number)

====
